---- MODULE Spec2Model ----
(***************************************************************************)
(* cpumembusy: a CPU duty-cycling worker pool (CPUController), a memory    *)
(* balloon of 1 MiB blocks (MemoryController) and the probabilistic        *)
(* control loop of main.go that steers both toward a drifting target.      *)
(*                                                                         *)
(* Numbers.  TLC integers are 32 bits wide, so                             *)
(*   - a uint64 byte count that can exceed 2^31 (totalMemory) is kept as   *)
(*     two limbs <<hi, lo>> meaning hi * 2^20 + lo, 0 <= lo < 2^20;        *)
(*   - a float64 percentage is kept in tenths of a percent (70% = 700);    *)
(*   - a float64 probability and a rand.Float64() draw are kept in         *)
(*     hundredths (0.90 = 90);                                             *)
(*   - the float64 products count * 1.001 and count * 0.999 are computed   *)
(*     exactly as IEEE-754 computes them (see F64MulTrunc).                *)
(***************************************************************************)
EXTENDS Integers, Sequences, FiniteSets, TLC

(***************************************************************************)
(* Bounds of the model                                                     *)
(***************************************************************************)
MaxCount == 10040       \* the intensity is explored in 1 .. MaxCount
MaxBlocks == 24         \* the balloon is explored up to this many blocks
MaxIncreases == 6       \* memory increase steps explored per behaviour
NumCPU == 2             \* runtime.NumCPU() of the modelled host
MaxCounter == 2         \* iterations of a worker explored one by one from its start
MaxTicks == 2           \* monitor ticks explored per behaviour of the loop
NumCallers == 2         \* goroutines calling Start()/Stop() concurrently
MaxAdjusts == 1         \* AdjustCountRandom calls explored per behaviour of the pool
MaxIterations == 20020  \* a worker is followed through this many iterations of its loop

(***************************************************************************)
(* Program constants                                                       *)
(***************************************************************************)
initCount == 10000
defaultPeakUsage == 40
hardPeakLimit == 70
minPeakUsage == 5
blockSize == 1048576

VARIABLES
    count,            \* cc.count, the shared intensity
    adjustCountRet,   \* last AdjustCountRandom call: argument, value read, value returned
    adjusters,        \* goroutines inside AdjustCountRandom: position, argument, locals
    ctx,              \* cc.ctx: "nil", "live" or "cancelled"
    cancel,           \* cc.cancel != nil
    mu,               \* cc.mu: 0 when free, else the caller holding it
    wg,               \* cc.wg counter
    workers,          \* live cpuWorker goroutines, each [pc, counter]
    callers,          \* goroutines calling Start()/Stop(), each [pc, i, acted]
    stopReturned,     \* some Stop() that cancelled a pool has returned
    buffer,           \* mc.buffer: the length in bytes of each block
    totalMemory,      \* mc.totalMemory as limbs <<hi, lo>>
    adjustMemoryRet,  \* last AdjustMemoryRandom call: argument, step, sizes
    requested,        \* bytes requested by the increase steps so far: raw and block-rounded
    env,              \* the environment variables P and p of the process
    peakUsageOrigin,  \* main.go peakUsageOrigin
    peakUsage,        \* main.go peakUsage
    ceilingArg,       \* userPeakUsage argument of the last calculateExpectedUsage
    hour,             \* time.Now().UTC().Hour() seen by the last isNightTime()
    expectedUsage,    \* last result of calculateExpectedUsage, in tenths
    lastStats,        \* main's lastStats
    memPass,          \* what the last adjustMemory pass did
    cpuPass,          \* what the last adjustCPU pass did
    lastTick,         \* the ticker case main's select handled last
    fetchErr,         \* err != nil in main's last GetSystemStats call
    ticks             \* monitor ticks handled so far

cpuVars == <<count, adjustCountRet, adjusters>>
poolVars == <<ctx, cancel, mu, wg, workers, callers, stopReturned>>
memVars == <<buffer, totalMemory, adjustMemoryRet, requested>>
planVars == <<env, peakUsageOrigin, peakUsage>>
targetVars == <<ceilingArg, hour, expectedUsage>>
loopVars == <<lastStats, memPass, cpuPass, lastTick, fetchErr, ticks>>
vars == <<cpuVars, poolVars, memVars, planVars, targetVars, loopVars>>

Min(a, b) == IF a < b THEN a ELSE b

(***************************************************************************)
(* float64 arithmetic of AdjustCountRandom                                 *)
(*                                                                         *)
(* The literal 1.001 is the double (1001 * 2^52 - 496) / (1000 * 2^52) and *)
(* 0.999 is the double (999 * 2^53 - 8) / (1000 * 2^53): both lie below    *)
(* the decimal they stand for.  For an integer c the exact product is      *)
(*     c * num / 1000  -  c * deficit / (1000 * 2^p)                       *)
(* and the multiplication rounds it to the nearest double (ties to even),  *)
(* after which uint64() truncates.  With q = c*num div 1000:               *)
(*   - if 1000 does not divide c*num the product lies strictly between q   *)
(*     and q+1, further than any rounding from both: the result is q;      *)
(*   - otherwise the product is q - eps, eps = c*deficit / (1000 * 2^p).   *)
(*     With 2^e < q <= 2^(e+1) the doubles just below q are 2^(e-52)       *)
(*     apart, so the product rounds up to q iff eps <= 2^(e-53) (a tie     *)
(*     goes to q, whose mantissa is even for q < 2^52), and else rounds    *)
(*     to a double below q, which truncates to q - 1.                      *)
(***************************************************************************)
RECURSIVE Pow2Below(_, _)
\* the largest power of two 2^e with 2^e < q, searched from p upward
Pow2Below(q, p) == IF 2 * p < q THEN Pow2Below(q, 2 * p) ELSE p

F64MulTrunc(c, num, deficit, half) ==
    LET q == (c * num) \div 1000
        s == (c * num) % 1000
    IN  IF s # 0 \/ q < 2 THEN q
        ELSE IF half * c * deficit <= 1000 * Pow2Below(q, 1) THEN q
        ELSE q - 1

\* uint64(float64(currentCount) * 1.001): deficit 496 at 2^52, eps <= 2^(e-53)
\* iff 2 * c * 496 <= 1000 * 2^e
MulUp(c) == F64MulTrunc(c, 1001, 496, 2)
\* uint64(float64(currentCount) * 0.999): deficit 8 at 2^53, eps <= 2^(e-53)
\* iff c * 8 <= 1000 * 2^e
MulDown(c) == F64MulTrunc(c, 999, 8, 1)

NewCountNoFloor(currentCount, shouldIncrease) ==
    IF shouldIncrease THEN MulUp(currentCount) ELSE MulDown(currentCount)

NewCount(currentCount, shouldIncrease) ==
    IF shouldIncrease
    THEN MulUp(currentCount)
    ELSE LET n == MulDown(currentCount) IN IF n < 1 THEN 1 ELSE n

\* CPUController.AdjustCountRandom as a step on the CPU engine's state
AdjustCountStep(shouldIncrease) ==
    /\ NewCount(count, shouldIncrease) <= MaxCount
    /\ count' = NewCount(count, shouldIncrease)
    /\ adjustCountRet' = [shouldIncrease |-> shouldIncrease,
                          currentCount |-> count,
                          ok |-> TRUE,
                          newCount |-> NewCount(count, shouldIncrease)]
    /\ UNCHANGED adjusters

AdjustCountRandom(shouldIncrease) ==
    /\ AdjustCountStep(shouldIncrease)
    /\ UNCHANGED <<poolVars, memVars, planVars, targetVars, loopVars>>

GetCount == count

\* the process has exited on the unrecovered panic of a worker: no goroutine
\* takes another step
Exited == \E i \in DOMAIN workers : workers[i].pc = "panic"

\* a monitor tick as the pool sees it: its CPU pass calls AdjustCountRandom
\* (main.go:262, :275), whether or not the pool is running
AdjustCountRunning(shouldIncrease) ==
    /\ ~Exited
    /\ ticks < MaxAdjusts
    /\ AdjustCountStep(shouldIncrease)
    /\ ticks' = ticks + 1
    /\ UNCHANGED <<poolVars, memVars, planVars, targetVars, lastStats,
                   memPass, cpuPass, lastTick, fetchErr>>

\* AdjustCountRandom run by concurrent goroutines: the atomic load and the
\* atomic store are separate steps of each call
Adjusters == {1, 2}

NotCalled == [pc |-> "idle", shouldIncrease |-> FALSE, currentCount |-> 0,
              newCount |-> 0]

\* currentCount := atomic.LoadUint64(&cc.count), then newCount is computed
\* from it in locals
AdjustCountLoad(a, shouldIncrease) ==
    /\ adjusters[a].pc = "idle"
    /\ adjusters' = [adjusters EXCEPT ![a] =
                        [pc |-> "loaded", shouldIncrease |-> shouldIncrease,
                         currentCount |-> count,
                         newCount |-> NewCount(count, shouldIncrease)]]
    /\ UNCHANGED <<count, adjustCountRet>>
    /\ UNCHANGED <<poolVars, memVars, planVars, targetVars, loopVars>>

\* atomic.StoreUint64(&cc.count, newCount); return true, shouldIncrease, newCount
AdjustCountStore(a) ==
    /\ adjusters[a].pc = "loaded"
    /\ count' = adjusters[a].newCount
    /\ adjustCountRet' = [shouldIncrease |-> adjusters[a].shouldIncrease,
                          currentCount |-> adjusters[a].currentCount,
                          ok |-> TRUE,
                          newCount |-> adjusters[a].newCount]
    /\ adjusters' = [adjusters EXCEPT ![a].pc = "done"]
    /\ UNCHANGED <<poolVars, memVars, planVars, targetVars, loopVars>>

(***************************************************************************)
(* Memory engine                                                           *)
(***************************************************************************)
RECURSIVE SumSeq(_)
SumSeq(s) == IF s = <<>> THEN 0 ELSE s[1] + SumSeq(Tail(s))

\* mc.totalMemory / 1000 for totalMemory = hi * 2^20 + lo
\* (2^20 = 1048 * 1000 + 576)
Div1000(t) == t[1] * 1048 + (t[1] * 576 + t[2]) \div 1000

getCurrentProgramMemory(buf) == Len(buf) * blockSize

\* bytes / blockSize, rounding down
BlocksForFloor(bytes) == bytes \div blockSize

\* (bytes + blockSize - 1) / blockSize
BlocksFor(bytes) == (bytes + blockSize - 1) \div blockSize

\* blocks = bytes / blockSize + 1
allocateMemoryExtraBlock(buf, bytes) ==
    buf \o [i \in 1 .. (bytes \div blockSize + 1) |-> blockSize]

\* one buffer of the requested size instead of whole blocks
allocateMemoryOneBuffer(buf, bytes) == Append(buf, bytes)

allocateMemory(buf, bytes) ==
    buf \o [i \in 1 .. BlocksFor(bytes) |-> blockSize]

\* a release that rounds the byte count down to whole blocks
releaseMemoryFloor(buf, bytes) ==
    LET blocks == Min(BlocksForFloor(bytes), Len(buf))
    IN  IF blocks > 0 THEN SubSeq(buf, 1, Len(buf) - blocks) ELSE buf

releaseMemory(buf, bytes) ==
    LET blocks == Min(BlocksFor(bytes), Len(buf))
    IN  IF blocks > 0 THEN SubSeq(buf, 1, Len(buf) - blocks) ELSE buf

adjustTo(buf, targetBytes) ==
    LET currentBytes == getCurrentProgramMemory(buf)
    IN  IF targetBytes > currentBytes
        THEN allocateMemory(buf, targetBytes - currentBytes)
        ELSE IF targetBytes < currentBytes
        THEN releaseMemory(buf, currentBytes - targetBytes)
        ELSE buf

\* a target whose step is never smaller than one byte
TargetProgramBytesMinStep(buf, total, shouldIncrease) ==
    LET currentProgramBytes == getCurrentProgramMemory(buf)
        adjustBytes == IF Div1000(total) = 0 THEN 1 ELSE Div1000(total)
    IN  IF shouldIncrease
        THEN currentProgramBytes + adjustBytes
        ELSE IF currentProgramBytes > adjustBytes
        THEN currentProgramBytes - adjustBytes
        ELSE 0

TargetProgramBytes(buf, total, shouldIncrease) ==
    LET currentProgramBytes == getCurrentProgramMemory(buf)
        adjustBytes == Div1000(total)
    IN  IF shouldIncrease
        THEN currentProgramBytes + adjustBytes
        ELSE IF currentProgramBytes > adjustBytes
        THEN currentProgramBytes - adjustBytes
        ELSE 0

\* MemoryController.AdjustMemoryRandom as a step on the memory engine's state
AdjustMemoryStep(shouldIncrease) ==
    LET adjustBytes == Div1000(totalMemory)
        newBuf == adjustTo(buffer, TargetProgramBytes(buffer, totalMemory, shouldIncrease))
    IN  /\ Len(newBuf) <= MaxBlocks
        /\ shouldIncrease => requested.steps < MaxIncreases
        /\ buffer' = newBuf
        /\ adjustMemoryRet' = [shouldIncrease |-> shouldIncrease,
                               adjustBytes |-> adjustBytes,
                               before |-> Len(buffer),
                               ok |-> TRUE,
                               actualBytes |-> getCurrentProgramMemory(newBuf)]
        /\ requested' = IF shouldIncrease
                        THEN [steps |-> requested.steps + 1,
                              bytes |-> requested.bytes + adjustBytes,
                              rounded |-> requested.rounded
                                          + BlocksFor(adjustBytes) * blockSize]
                        ELSE requested
        /\ UNCHANGED totalMemory

AdjustMemoryRandom(shouldIncrease) ==
    /\ AdjustMemoryStep(shouldIncrease)
    /\ UNCHANGED <<cpuVars, poolVars, planVars, targetVars, loopVars>>

GetCurrentMemory == getCurrentProgramMemory(buffer)

SetTotalMemory(total) == total

(***************************************************************************)
(* Usage plan and target calculator (main.go)                              *)
(***************************************************************************)
\* The value of the environment variable P (or p): unset or empty, a text
\* strconv.Atoi rejects, or a text it parses to the integer n
EnvUnset == [kind |-> "unset", n |-> 0]
EnvInvalid == [kind |-> "invalid", n |-> 0]
EnvInt(n) == [kind |-> "int", n |-> n]

\* value := os.Getenv("P"); if value == "" { value = os.Getenv("p") }
EnvValue(e) == IF e.P.kind = "unset" THEN e.p ELSE e.P

\* getPeakUsage without the raise to minPeakUsage
getPeakUsageNoMin(value) ==
    IF value.kind = "unset" THEN defaultPeakUsage
    ELSE IF value.kind = "invalid" THEN defaultPeakUsage
    ELSE IF value.n < 1 \/ value.n > 100 THEN defaultPeakUsage
    ELSE value.n

getPeakUsage(value) ==
    IF value.kind = "unset" THEN defaultPeakUsage
    ELSE IF value.kind = "invalid" THEN defaultPeakUsage
    ELSE IF value.n < 1 \/ value.n > 100 THEN defaultPeakUsage
    ELSE IF value.n < minPeakUsage THEN minPeakUsage
    ELSE value.n

isNightTime(h) == h >= 16 /\ h < 20

calculateExpectedUsageNoLimit(userPeakUsage, h) ==
    IF isNightTime(h) THEN 10 * userPeakUsage ELSE 8 * userPeakUsage

\* float64(userPeakUsage) [* 0.8], clamped to hardPeakLimit; in tenths
calculateExpectedUsage(userPeakUsage, h) ==
    LET e == IF isNightTime(h) THEN 10 * userPeakUsage ELSE 8 * userPeakUsage
    IN  IF e > 10 * hardPeakLimit THEN 10 * hardPeakLimit ELSE e

\* a drift whose upper end is 100 instead of peakUsageOrigin
updatePeakUsageTo100(origin, r) ==
    LET newValue == (100 * origin + r * (500 - origin)) \div 500
        intMin == origin \div 5
        p1 == IF newValue < intMin THEN intMin ELSE newValue
    IN  IF p1 < minPeakUsage THEN minPeakUsage ELSE p1


\* a drift without the minPeakUsage floor
updatePeakUsageNoFloor(origin, r) ==
    LET newValue == (100 * origin + 4 * r * origin) \div 500
        intMin == origin \div 5
    IN  IF newValue < intMin THEN intMin ELSE newValue

\* updatePeakUsage for the draw rand.Float64() = r / 100:
\* minValue = origin * 0.2, newValue = minValue + r/100 * (origin - minValue)
\*          = (100 * origin + 4 * r * origin) / 500
updatePeakUsage(origin, r) ==
    LET newValue == (100 * origin + 4 * r * origin) \div 500
        intMin == origin \div 5
        p1 == IF newValue < intMin THEN intMin ELSE newValue
    IN  IF p1 < minPeakUsage THEN minPeakUsage ELSE p1

(***************************************************************************)
(* Adaptive controller (main.go)                                           *)
(***************************************************************************)
abs(x) == IF x < 0 THEN -x ELSE x

(***************************************************************************)
(* float64 arithmetic of diff := currentPercent - expectedUsage            *)
(*                                                                         *)
(* A percentage is given in tenths, k standing for the float64 nearest to  *)
(* k/10, and a target in tenths, m standing for the float64 that           *)
(* calculateExpectedUsage returns: float64(p) at night and when clamped,   *)
(* float64(p) * 0.8 by day (m = 8p). Neither is k/10 or m/10 in general;   *)
(* the errors below are exact, in units of 1/(10 * 2^60).                  *)
(***************************************************************************)
\* 2^n mod 10 for n >= 1, and 2^n mod 20 for n >= 2
Pow2Mod10(n) ==
    CASE n % 4 = 0 -> 6 [] n % 4 = 1 -> 2 [] n % 4 = 2 -> 4 [] OTHER -> 8

Pow2Mod20(n) ==
    CASE n % 4 = 0 -> 16 [] n % 4 = 1 -> 12 [] n % 4 = 2 -> 4 [] OTHER -> 8

\* the binary exponent e of t/10: 2^e <= t/10 < 2^(e+1), for 1 <= t <= 1279
F64Exponent(t) ==
    IF t >= 640 THEN 6 ELSE IF t >= 320 THEN 5 ELSE IF t >= 160 THEN 4
    ELSE IF t >= 80 THEN 3 ELSE IF t >= 40 THEN 2 ELSE IF t >= 20 THEN 1
    ELSE IF t >= 10 THEN 0 ELSE IF t >= 5 THEN -1 ELSE IF t >= 3 THEN -2
    ELSE IF t >= 2 THEN -3 ELSE -4

\* float64(k/10) - k/10: k/10 rounded to 53 bits
F64PercentError(k) ==
    IF k = 0 THEN 0
    ELSE LET e == F64Exponent(k)
             r == ((k % 10) * Pow2Mod10(52 - e)) % 10
         IN  (IF r < 5 THEN 0 - r ELSE 10 - r) * 2^(8 + e)

\* the float64 target minus m/10: 0 for a whole number of percent, else
\* float64(p) * 0.8 - 0.8p where the float64 0.8 is 0.8 + 0.4 * 2^-53 and
\* the product is rounded to 53 bits, ties to even
F64TargetError(m) ==
    IF m % 10 = 0 THEN 0
    ELSE LET p == m \div 8
             e == F64Exponent(m)
             ulp == 10 * 2^(8 + e)
             r == ((m % 10) * Pow2Mod10(52 - e)) % 10
             a == 2^(8 + e) * r + 512 * p
             rem == a % ulp
             odd == (((((m % 20) * Pow2Mod20(52 - e)) % 20) - r) \div 10
                        + a \div ulp) % 2 = 1
         IN  IF 2 * rem < ulp \/ (2 * rem = ulp /\ ~odd)
             THEN 512 * p - rem
             ELSE 512 * p - rem + ulp

\* the sign of float64(T + d) - T for a whole number T >= 0 and an exact
\* offset d in units of 1/(10 * 2^60): the sum rounds to T within half an
\* ulp of T, which below a power of two is half as wide
F64SignAt(T, d) ==
    IF T = 0 THEN (IF d > 0 THEN 1 ELSE IF d < 0 THEN -1 ELSE 0)
    ELSE LET p2 == Pow2Below(T + 1, 1)
             up == 10 * 128 * p2
             down == IF p2 = T THEN 10 * 64 * p2 ELSE up
         IN  IF d > up THEN 1 ELSE IF 0 - d > down THEN -1 ELSE 0

\* diff := currentPercent - expectedUsage in float64, in thirtieths of a
\* point: three times the difference in tenths, and one more or less when
\* that difference is a whole number of points and the float64 result is
\* above or below it
F64Diff(k, m) ==
    LET n == k - m
        d == F64PercentError(k) - F64TargetError(m)
    IN  IF n % 10 # 0 THEN 3 * n
        ELSE IF n >= 0 THEN 3 * n + F64SignAt(n \div 10, d)
        ELSE 3 * n - F64SignAt((0 - n) \div 10, 0 - d)

\* diff in thirtieths of a point, result in hundredths
calculateAdjustProbability(diff) ==
    IF diff > 150 THEN 90 ELSE IF diff >= 60 THEN 70 ELSE 60

\* the direction table with the 2-point boundary excluded (> 2 for >= 2)
calculateDirectionProbabilityOver2(diff, expected) ==
    LET absDiff == abs(diff)
    IN  IF diff < 0
        THEN IF absDiff > 1500 THEN 90
             ELSE IF absDiff > 600 THEN 80
             ELSE IF absDiff > 300 THEN 70
             ELSE IF absDiff > 150 THEN 65
             ELSE IF absDiff > 60 THEN 60
             ELSE 55
        ELSE IF absDiff > 1500 THEN 10
             ELSE IF absDiff > 600 THEN 20
             ELSE IF absDiff > 300 THEN 30
             ELSE IF absDiff > 150 THEN 35
             ELSE IF absDiff > 60 THEN 40
             ELSE 45

calculateDirectionProbability(diff, expected) ==
    LET absDiff == abs(diff)
    IN  IF diff < 0
        THEN IF absDiff > 1500 THEN 90
             ELSE IF absDiff > 600 THEN 80
             ELSE IF absDiff > 300 THEN 70
             ELSE IF absDiff > 150 THEN 65
             ELSE IF absDiff >= 60 THEN 60
             ELSE 55
        ELSE IF absDiff > 1500 THEN 10
             ELSE IF absDiff > 600 THEN 20
             ELSE IF absDiff > 300 THEN 30
             ELSE IF absDiff > 150 THEN 35
             ELSE IF absDiff >= 60 THEN 40
             ELSE 45

shouldAdjust(probability, r) == r < probability

\* a probabilistic pass that still issues a decrease step when it skips
ProbabilisticPassStepOnSkip(currentPercent, expected, r1, r2) ==
    LET diff == F64Diff(currentPercent, expected)
        adjustProb == calculateAdjustProbability(abs(diff))
        increaseProb == calculateDirectionProbability(diff, expected)
    IN  IF ~shouldAdjust(adjustProb, r1)
        THEN [percent |-> currentPercent, category |-> "skip",
              steps |-> <<FALSE>>, draws |-> 1, increaseProb |-> -1, draw |-> -1,
              diff |-> diff]
        ELSE [percent |-> currentPercent, category |-> "adjust",
              steps |-> <<r2 < increaseProb>>, draws |-> 2,
              increaseProb |-> increaseProb, draw |-> r2, diff |-> diff]

\* The probabilistic part of a pass (main.go:213-231 / 257-275): r1 is the
\* draw of shouldAdjust, r2 the draw of the direction.
ProbabilisticPass(currentPercent, expected, r1, r2) ==
    LET diff == F64Diff(currentPercent, expected)
        adjustProb == calculateAdjustProbability(abs(diff))
        increaseProb == calculateDirectionProbability(diff, expected)
    IN  IF ~shouldAdjust(adjustProb, r1)
        THEN [percent |-> currentPercent, category |-> "skip",
              steps |-> <<>>, draws |-> 1, increaseProb |-> -1, draw |-> -1,
              diff |-> diff]
        ELSE [percent |-> currentPercent, category |-> "adjust",
              steps |-> <<r2 < increaseProb>>, draws |-> 2,
              increaseProb |-> increaseProb, draw |-> r2, diff |-> diff]

ForcedPass(currentPercent) ==
    [percent |-> currentPercent, category |-> "forced",
     steps |-> <<FALSE>>, draws |-> 0, increaseProb |-> -1, draw |-> -1,
     diff |-> 0]

\* adjustMemory: what the pass decides; steps is the sequence of
\* AdjustMemoryRandom arguments it issues
adjustMemoryDecision(currentPercent, expected, r1, r2) ==
    IF currentPercent > 10 * hardPeakLimit
    THEN ForcedPass(currentPercent)
    ELSE ProbabilisticPass(currentPercent, expected, r1, r2)

adjustCPUDecisionNoOverride(currentPercent, expected, r1, r2) ==
    ProbabilisticPass(currentPercent, expected, r1, r2)

\* adjustCPU: the same for AdjustCountRandom
adjustCPUDecision(currentPercent, expected, r1, r2) ==
    IF currentPercent > 10 * hardPeakLimit
    THEN ForcedPass(currentPercent)
    ELSE ProbabilisticPass(currentPercent, expected, r1, r2)

adjustMemory(stats, expected, r1, r2) ==
    LET d == adjustMemoryDecision(stats.MemoryPercent, expected, r1, r2)
    IN  /\ memPass' = d
        /\ IF d.steps = <<>>
           THEN UNCHANGED memVars
           ELSE AdjustMemoryStep(d.steps[1])

adjustCPU(stats, expected, r1, r2) ==
    LET d == adjustCPUDecision(stats.CPUPercent, expected, r1, r2)
    IN  /\ cpuPass' = d
        /\ IF d.steps = <<>>
           THEN UNCHANGED cpuVars
           ELSE AdjustCountStep(d.steps[1])

adjustResources(stats, expected, rm1, rm2, rc1, rc2) ==
    /\ adjustMemory(stats, expected, rm1, rm2)
    /\ adjustCPU(stats, expected, rc1, rc2)

(***************************************************************************)
(* CPU worker pool: Start, Stop and cpuWorker                              *)
(***************************************************************************)
Callers == 1 .. NumCallers

Idle == [pc |-> "idle", i |-> 0, acted |-> FALSE]

SetCaller(c, pc, i, acted) ==
    callers' = [callers EXCEPT ![c] = [pc |-> pc, i |-> i, acted |-> acted]]

RemoveAt(s, i) == SubSeq(s, 1, i - 1) \o SubSeq(s, i + 1, Len(s))

StartAlreadyRunningNever == FALSE

\* Start's guard `cc.ctx != nil`
StartAlreadyRunning == ctx # "nil"

WaitDoneAtOnce == TRUE

\* cc.wg.Wait() returns
WaitDone == wg = 0

\* a goroutine calls cc.Start() and waits for cc.mu
CallStart(c) ==
    /\ ~Exited
    /\ callers[c].pc = "idle"
    /\ SetCaller(c, "Start_lock", 0, FALSE)
    /\ UNCHANGED <<ctx, cancel, mu, wg, workers, stopReturned>>
    /\ UNCHANGED <<cpuVars, memVars, planVars, targetVars, loopVars>>

\* cc.mu.Lock(); if cc.ctx != nil { return }; cc.ctx, cc.cancel = WithCancel
StartLock(c) ==
    /\ ~Exited
    /\ callers[c].pc = "Start_lock"
    /\ mu = 0
    /\ mu' = c
    /\ IF StartAlreadyRunning
       THEN /\ SetCaller(c, "Start_unlock", 0, FALSE)
            /\ UNCHANGED <<ctx, cancel>>
       ELSE /\ SetCaller(c, "Start_spawn", 0, TRUE)
            /\ ctx' = "live"
            /\ cancel' = TRUE
    /\ UNCHANGED <<wg, workers, stopReturned>>
    /\ UNCHANGED <<cpuVars, memVars, planVars, targetVars, loopVars>>

\* one iteration of `for i := 0; i < numCPU; i++ { wg.Add(1); go cpuWorker(i) }`
StartSpawn(c) ==
    /\ ~Exited
    /\ callers[c].pc = "Start_spawn"
    /\ IF callers[c].i < NumCPU
       THEN /\ wg' = wg + 1
            /\ workers' = Append(workers, [pc |-> "loop", counter |-> 0])
            /\ SetCaller(c, "Start_spawn", callers[c].i + 1, TRUE)
       ELSE /\ SetCaller(c, "Start_unlock", callers[c].i, TRUE)
            /\ UNCHANGED <<wg, workers>>
    /\ UNCHANGED <<ctx, cancel, mu, stopReturned>>
    /\ UNCHANGED <<cpuVars, memVars, planVars, targetVars, loopVars>>

\* the deferred cc.mu.Unlock() and the return of Start
StartUnlock(c) ==
    /\ ~Exited
    /\ callers[c].pc = "Start_unlock"
    /\ mu' = 0
    /\ callers' = [callers EXCEPT ![c] = Idle]
    /\ UNCHANGED <<ctx, cancel, wg, workers, stopReturned>>
    /\ UNCHANGED <<cpuVars, memVars, planVars, targetVars, loopVars>>

\* a goroutine calls cc.Stop() and waits for cc.mu
CallStop(c) ==
    /\ ~Exited
    /\ callers[c].pc = "idle"
    /\ SetCaller(c, "Stop_lock", 0, FALSE)
    /\ UNCHANGED <<ctx, cancel, mu, wg, workers, stopReturned>>
    /\ UNCHANGED <<cpuVars, memVars, planVars, targetVars, loopVars>>

\* cc.mu.Lock(); if cc.cancel != nil { cc.cancel() ...
StopLock(c) ==
    /\ ~Exited
    /\ callers[c].pc = "Stop_lock"
    /\ mu = 0
    /\ mu' = c
    /\ IF cancel
       THEN /\ ctx' = "cancelled"
            /\ SetCaller(c, "Stop_wait", 0, TRUE)
       ELSE /\ SetCaller(c, "Stop_unlock", 0, FALSE)
            /\ UNCHANGED ctx
    /\ UNCHANGED <<cancel, wg, workers, stopReturned>>
    /\ UNCHANGED <<cpuVars, memVars, planVars, targetVars, loopVars>>

\* ... cc.wg.Wait(); cc.ctx = nil; cc.cancel = nil }
StopWait(c) ==
    /\ ~Exited
    /\ callers[c].pc = "Stop_wait"
    /\ WaitDone
    /\ ctx' = "nil"
    /\ cancel' = FALSE
    /\ SetCaller(c, "Stop_unlock", 0, TRUE)
    /\ UNCHANGED <<mu, wg, workers, stopReturned>>
    /\ UNCHANGED <<cpuVars, memVars, planVars, targetVars, loopVars>>

\* the deferred cc.mu.Unlock() and the return of Stop
StopUnlock(c) ==
    /\ ~Exited
    /\ callers[c].pc = "Stop_unlock"
    /\ mu' = 0
    /\ stopReturned' = (stopReturned \/ callers[c].acted)
    /\ callers' = [callers EXCEPT ![c] = Idle]
    /\ UNCHANGED <<ctx, cancel, wg, workers>>
    /\ UNCHANGED <<cpuVars, memVars, planVars, targetVars, loopVars>>


\* a worker that never polls the cancellation signal
WorkerLoopNoPoll(i) ==
    /\ ~Exited
    /\ i \in DOMAIN workers
    /\ workers[i].pc = "loop"
    /\ ctx # "nil"
    /\ workers[i].counter < MaxIterations
    /\ (workers[i].counter < MaxCounter
          \/ (workers[i].counter + 1) % count = 0)
    /\ LET counter == workers[i].counter + 1
       IN  workers' = [workers EXCEPT ![i] =
              [pc |-> IF counter % count = 0 THEN "sleep" ELSE "loop",
               counter |-> counter]]
    /\ UNCHANGED <<ctx, cancel, mu, wg, callers, stopReturned>>
    /\ UNCHANGED <<cpuVars, memVars, planVars, targetVars, loopVars>>

\* one iteration of cpuWorker's for/select: on <-cc.ctx.Done() return (the
\* deferred wg.Done() runs); on a nil cc.ctx the call cc.ctx.Done() panics,
\* the deferred wg.Done() runs while panicking and the process exits; by
\* default counter++ and sleep when counter % count == 0
WorkerLoop(i) ==
    /\ ~Exited
    /\ i \in DOMAIN workers
    /\ workers[i].pc = "loop"
    /\ IF ctx = "cancelled"
       THEN /\ workers' = RemoveAt(workers, i)
            /\ wg' = wg - 1
       ELSE IF ctx = "nil"
       THEN /\ workers' = [workers EXCEPT ![i].pc = "panic"]
            /\ wg' = wg - 1
       ELSE /\ workers[i].counter < MaxIterations
            /\ (workers[i].counter < MaxCounter
                  \/ (workers[i].counter + 1) % count = 0)
            /\ LET counter == workers[i].counter + 1
               IN  workers' = [workers EXCEPT ![i] =
                      [pc |-> IF counter % count = 0 THEN "sleep" ELSE "loop",
                       counter |-> counter]]
            /\ UNCHANGED wg
    /\ UNCHANGED <<ctx, cancel, mu, callers, stopReturned>>
    /\ UNCHANGED <<cpuVars, memVars, planVars, targetVars, loopVars>>

\* the first value above counter at which counter % v = 0
NextSleep(counter, v) == ((counter \div v) + 1) * v

\* where a run of iterations that do not sleep may end: one short of the
\* next sleep under the count stored now, or earlier, one short of what
\* would be the next sleep under the count one AdjustCountRandom call away
SpinStops(counter) ==
    {NextSleep(counter, v) - 1 :
        v \in {count, NewCount(count, TRUE), NewCount(count, FALSE)}}

\* iterations of cpuWorker's loop after the first MaxCounter ones, in a
\* row: each finds the context live, increments the private counter, loads
\* the same count and finds counter % count # 0. The run ends at a stop no
\* later than the last iteration before the next sleep, so that a store of
\* AdjustCountRandom falls before the run, after it, or between two runs.
WorkerSpin(i) ==
    /\ ~Exited
    /\ i \in DOMAIN workers
    /\ workers[i].pc = "loop"
    /\ ctx = "live"
    /\ workers[i].counter >= MaxCounter
    /\ \E stop \in SpinStops(workers[i].counter) :
        /\ workers[i].counter < stop
        /\ stop < NextSleep(workers[i].counter, count)
        /\ stop <= MaxIterations
        /\ workers' = [workers EXCEPT ![i].counter = stop]
    /\ UNCHANGED <<ctx, cancel, mu, wg, callers, stopReturned>>
    /\ UNCHANGED <<cpuVars, memVars, planVars, targetVars, loopVars>>

\* time.Sleep(sleepTime) returns
WorkerWake(i) ==
    /\ ~Exited
    /\ i \in DOMAIN workers
    /\ workers[i].pc = "sleep"
    /\ workers' = [workers EXCEPT ![i].pc = "loop"]
    /\ UNCHANGED <<ctx, cancel, mu, wg, callers, stopReturned>>
    /\ UNCHANGED <<cpuVars, memVars, planVars, targetVars, loopVars>>

(***************************************************************************)
(* Control loop of main (main.go:76-126)                                   *)
(***************************************************************************)
HostTotal == <<10240, 0>>
Hours == {3, 17}
Draws == {0, 95}
DriftDraws == {50}
\* P = 90: the target is capped at 70 until the ceiling drifts below it
LoopEnv == {EnvInt(90)}

\* what GetSystemStats can return without an error
FetchResults ==
    {[CPUPercent |-> 0, MemoryPercent |-> 320, TotalMemory |-> HostTotal],
     [CPUPercent |-> 320, MemoryPercent |-> 0, TotalMemory |-> HostTotal],
     [CPUPercent |-> 701, MemoryPercent |-> 320, TotalMemory |-> HostTotal],
     [CPUPercent |-> 701, MemoryPercent |-> 701, TotalMemory |-> HostTotal]}

ZeroStats == [CPUPercent |-> 0, MemoryPercent |-> 0, TotalMemory |-> <<0, 0>>]

\* the (stats, err) pairs GetSystemStats can return
Fetches ==
    {[err |-> FALSE, stats |-> f] : f \in FetchResults}
        \cup {[err |-> TRUE, stats |-> ZeroStats]}

NoPass == [percent |-> 0, category |-> "none", steps |-> <<>>, draws |-> 0,
           increaseProb |-> -1, draw |-> -1, diff |-> 0]

\* the snapshot a monitor tick works on, without the fallback
CurrentStatsNoFallback(fetch, last) == fetch.stats

\* currentStats, err := GetSystemStats(); if err != nil { currentStats = lastStats }
CurrentStats(fetch, last) == IF fetch.err THEN last ELSE fetch.stats

\* case <-monitorTicker.C
MonitorTick ==
    \E fetch \in Fetches, h \in Hours,
       rm1 \in Draws, rm2 \in Draws, rc1 \in Draws, rc2 \in Draws :
        LET currentStats == CurrentStats(fetch, lastStats)
            expected == calculateExpectedUsage(peakUsage, h)
        IN  /\ ticks < MaxTicks
            /\ fetchErr' = fetch.err
            /\ lastStats' = currentStats
            /\ ceilingArg' = peakUsage
            /\ hour' = h
            /\ expectedUsage' = expected
            /\ adjustResources(currentStats, expected, rm1, rm2, rc1, rc2)
            /\ ticks' = ticks + 1
            /\ lastTick' = "monitor"
            /\ UNCHANGED <<poolVars, planVars>>

\* case <-peakUsageTicker.C
PeakUsageTick ==
    \E r \in DriftDraws :
        /\ peakUsage' = updatePeakUsage(peakUsageOrigin, r)
        /\ lastTick' = "peak"
        /\ UNCHANGED <<env, peakUsageOrigin, lastStats, memPass, cpuPass, fetchErr, ticks>>
        /\ UNCHANGED <<cpuVars, poolVars, memVars, targetVars>>

\* case <-gcTicker.C
GCTick ==
    /\ lastTick' = "gc"
    /\ UNCHANGED <<lastStats, memPass, cpuPass, fetchErr, ticks>>
    /\ UNCHANGED <<cpuVars, poolVars, memVars, planVars, targetVars>>

(***************************************************************************)
(* Initial states                                                          *)
(***************************************************************************)
NoAdjustCount == [shouldIncrease |-> FALSE, currentCount |-> initCount,
                  ok |-> FALSE, newCount |-> initCount]
NoAdjustMemory == [shouldIncrease |-> FALSE, adjustBytes |-> 0, before |-> 0,
                   ok |-> FALSE, actualBytes |-> 0]
NothingRequested == [steps |-> 0, bytes |-> 0, rounded |-> 0]

\* var cpuController = &CPUController{count: initCount}
InitCPU ==
    /\ count = initCount
    /\ adjustCountRet = NoAdjustCount
    /\ adjusters = [a \in Adjusters |-> NotCalled]

InitPoolStopped ==
    /\ ctx = "nil"
    /\ cancel = FALSE
    /\ mu = 0
    /\ wg = 0
    /\ workers = <<>>
    /\ callers = [c \in Callers |-> Idle]
    /\ stopReturned = FALSE

\* var memoryController = &MemoryController{}
InitMem ==
    /\ buffer = <<>>
    /\ totalMemory = <<0, 0>>
    /\ adjustMemoryRet = NoAdjustMemory
    /\ requested = NothingRequested

InitPlan ==
    /\ env = [P |-> EnvUnset, p |-> EnvUnset]
    /\ peakUsageOrigin = getPeakUsage(EnvValue(env))
    /\ peakUsage = peakUsageOrigin

InitTarget ==
    /\ ceilingArg = 0
    /\ hour = 0
    /\ expectedUsage = -1

InitLoopVars ==
    /\ lastStats = ZeroStats
    /\ memPass = NoPass
    /\ cpuPass = NoPass
    /\ lastTick = "none"
    /\ fetchErr = FALSE
    /\ ticks = 0

(***************************************************************************)
(* SpecCPU: the CPU engine under any sequence of AdjustCountRandom calls   *)
(***************************************************************************)
InitSpecCPU ==
    InitCPU /\ InitPoolStopped /\ InitMem /\ InitPlan /\ InitTarget /\ InitLoopVars

NextCPU == \E b \in BOOLEAN : AdjustCountRandom(b)

SpecCPU == InitSpecCPU /\ [][NextCPU]_vars

(***************************************************************************)
(* SpecRace: two goroutines each call AdjustCountRandom once, concurrently *)
(***************************************************************************)
\* intensities the two calls start from: the initial one and values that
\* steps from it reach
RaceCounts == {1, 2, 999, 1000, 1001, 9990, 10000, 10009}

InitSpecRace ==
    /\ InitPoolStopped /\ InitMem /\ InitPlan /\ InitTarget /\ InitLoopVars
    /\ count \in RaceCounts
    /\ adjustCountRet = NoAdjustCount
    /\ adjusters = [a \in Adjusters |-> NotCalled]

NextRace ==
    \/ \E a \in Adjusters, b \in BOOLEAN : AdjustCountLoad(a, b)
    \/ \E a \in Adjusters : AdjustCountStore(a)

SpecRace == InitSpecRace /\ [][NextRace]_vars

(***************************************************************************)
(* SpecMem: the memory engine under any sequence of AdjustMemoryRandom     *)
(* calls, for each total-memory basis set by SetTotalMemory                *)
(***************************************************************************)
TotalMemories ==
    {<<0, 0>>, <<0, 999>>, <<0, 1000>>, <<1000, 0>>, <<1000, 1000>>, <<10240, 0>>}

InitSpecMem ==
    /\ InitCPU /\ InitPoolStopped /\ InitPlan /\ InitTarget /\ InitLoopVars
    /\ buffer = <<>>
    /\ totalMemory \in {SetTotalMemory(t) : t \in TotalMemories}
    /\ adjustMemoryRet = NoAdjustMemory
    /\ requested = NothingRequested

NextMem == \E b \in BOOLEAN : AdjustMemoryRandom(b)

SpecMem == InitSpecMem /\ [][NextMem]_vars

(***************************************************************************)
(* SpecTarget: calculateExpectedUsage on every ceiling and hour            *)
(***************************************************************************)
Ceilings == 1 .. 100
AllHours == 0 .. 23

CalculateExpected(u, h) ==
    /\ ceilingArg' = u
    /\ hour' = h
    /\ expectedUsage' = calculateExpectedUsage(u, h)
    /\ UNCHANGED <<cpuVars, poolVars, memVars, planVars, loopVars>>

InitSpecTarget ==
    InitCPU /\ InitPoolStopped /\ InitMem /\ InitPlan /\ InitTarget /\ InitLoopVars

NextTarget == \E u \in Ceilings, h \in AllHours : CalculateExpected(u, h)

SpecTarget == InitSpecTarget /\ [][NextTarget]_vars

(***************************************************************************)
(* SpecDrift: the usage plan from every configured value, under drift      *)
(* updates, with the target computed from it                               *)
(***************************************************************************)
EnvValues == {EnvUnset, EnvInvalid} \cup {EnvInt(n) : n \in -1 .. 102}

AllDriftDraws == {0, 1, 25, 50, 75, 98, 99}

UpdatePeakUsage(r) ==
    /\ peakUsage' = updatePeakUsage(peakUsageOrigin, r)
    /\ UNCHANGED <<env, peakUsageOrigin, cpuVars, poolVars, memVars, targetVars, loopVars>>

InitSpecDrift ==
    /\ InitCPU /\ InitPoolStopped /\ InitMem /\ InitTarget /\ InitLoopVars
    /\ env \in {[P |-> e, p |-> EnvUnset] : e \in EnvValues}
    /\ peakUsageOrigin = getPeakUsage(EnvValue(env))
    /\ peakUsage = peakUsageOrigin

NextDrift ==
    \/ \E r \in AllDriftDraws : UpdatePeakUsage(r)
    \/ \E h \in Hours : CalculateExpected(peakUsage, h)

SpecDrift == InitSpecDrift /\ [][NextDrift]_vars

(***************************************************************************)
(* SpecConfig: the first two statements of main, for every value of the    *)
(* environment variables P and p                                           *)
(***************************************************************************)
LowerCaseEnv == {EnvUnset, EnvInvalid, EnvInt(0), EnvInt(3), EnvInt(50), EnvInt(101)}

\* peakUsageOrigin = getPeakUsage(); peakUsage = peakUsageOrigin
MainReadPeakUsage ==
    /\ peakUsageOrigin = 0
    /\ peakUsageOrigin' = getPeakUsage(EnvValue(env))
    /\ peakUsage' = peakUsageOrigin'
    /\ UNCHANGED <<env, cpuVars, poolVars, memVars, targetVars, loopVars>>

InitSpecConfig ==
    /\ InitCPU /\ InitPoolStopped /\ InitMem /\ InitTarget /\ InitLoopVars
    /\ env \in {[P |-> e, p |-> f] : e \in EnvValues, f \in LowerCaseEnv}
    /\ peakUsageOrigin = 0
    /\ peakUsage = 0

NextConfig == MainReadPeakUsage

SpecConfig == InitSpecConfig /\ [][NextConfig]_vars

(***************************************************************************)
(* SpecDirection: adjustMemory passes at every boundary of the direction   *)
(* table, with every draw next to a probability of the table               *)
(***************************************************************************)
\* current - expected, in tenths, below and at or above the target
DiffsBelow == {-600, -501, -500, -201, -200, -101, -100, -51, -50, -20, -19, -1}
DiffsAbove == {0, 19, 20, 50, 51, 100, 101, 200, 201, 500, 501}

\* daytime passes whose float64 diff is not the difference of the tenths:
\* 0.4 - 50.4 < -50, 2.4 - 22.4 < -20, 1.2 - 11.2 < -10, 0.6 - 5.6 < -5,
\* 4.8 - 4.8 < 0, 9.2 - 7.2 < 2 and 64.4 - 14.4 > 50
RoundedCases ==
    {[current |-> 4, expected |-> 504], [current |-> 24, expected |-> 224],
     [current |-> 12, expected |-> 112], [current |-> 6, expected |-> 56],
     [current |-> 48, expected |-> 48], [current |-> 92, expected |-> 72],
     [current |-> 644, expected |-> 144]}

\* (stats.MemoryPercent, expectedUsage) of a pass: below the target 70.0
\* and at or above the target 10.0, in tenths, and the rounded cases
DirectionCases ==
    {[current |-> 700 + d, expected |-> 700] : d \in DiffsBelow}
        \cup {[current |-> 100 + d, expected |-> 100] : d \in DiffsAbove}
        \cup RoundedCases

\* rand.Float64() in hundredths: each probability of the table and the
\* draw just below it
DirectionDraws ==
    {0, 99} \cup {p - 1 : p \in {10, 20, 30, 35, 40, 45, 55, 60, 65, 70, 80, 90}}
        \cup {10, 20, 30, 35, 40, 45, 55, 60, 65, 70, 80, 90}

\* one adjustMemory(stats, expectedUsage) call
MemoryPass ==
    \E c \in DirectionCases, r1 \in {0, 99}, r2 \in DirectionDraws :
        LET stats == [CPUPercent |-> 0, MemoryPercent |-> c.current,
                      TotalMemory |-> totalMemory]
        IN  /\ ticks < MaxTicks
            /\ adjustMemory(stats, c.expected, r1, r2)
            /\ lastStats' = stats
            /\ expectedUsage' = c.expected
            /\ ticks' = ticks + 1
            /\ UNCHANGED <<cpuVars, poolVars, planVars, ceilingArg, hour,
                           cpuPass, lastTick, fetchErr>>

InitSpecDirection ==
    /\ InitCPU /\ InitPoolStopped /\ InitMem /\ InitPlan /\ InitTarget
    /\ InitLoopVars

NextDirection == MemoryPass

SpecDirection == InitSpecDirection /\ [][NextDirection]_vars

(***************************************************************************)
(* SpecPool: Start, Stop, the workers and the monitor's AdjustCountRandom  *)
(* calls, for concurrent callers, from the engine as the program creates   *)
(* it; each worker is followed through its first MaxIterations iterations, *)
(* the runs between two sleeps taken several iterations at a step          *)
(***************************************************************************)
InitSpecPool ==
    /\ InitCPU /\ InitPoolStopped /\ InitMem /\ InitPlan /\ InitTarget
    /\ InitLoopVars

NextPool ==
    \/ \E c \in Callers : CallStart(c)
    \/ \E c \in Callers : StartLock(c)
    \/ \E c \in Callers : StartSpawn(c)
    \/ \E c \in Callers : StartUnlock(c)
    \/ \E c \in Callers : CallStop(c)
    \/ \E c \in Callers : StopLock(c)
    \/ \E c \in Callers : StopWait(c)
    \/ \E c \in Callers : StopUnlock(c)
    \/ \E i \in 1 .. Len(workers) : WorkerLoop(i)
    \/ \E i \in 1 .. Len(workers) : WorkerSpin(i)
    \/ \E i \in 1 .. Len(workers) : WorkerWake(i)
    \/ \E b \in BOOLEAN : AdjustCountRunning(b)

SpecPool == InitSpecPool /\ [][NextPool]_vars

(***************************************************************************)
(* Spec: main after its startup (main.go:39-74), then the ticker loop      *)
(***************************************************************************)
Init ==
    /\ InitCPU /\ InitTarget
    /\ env \in {[P |-> e, p |-> EnvUnset] : e \in LoopEnv}
    /\ peakUsageOrigin = getPeakUsage(EnvValue(env))
    /\ peakUsage = peakUsageOrigin
    /\ \E fetch \in {f \in Fetches : f.stats.CPUPercent = 0} :
        /\ fetchErr = fetch.err
        /\ lastStats = IF fetch.err THEN ZeroStats ELSE fetch.stats
        /\ totalMemory = IF fetch.err THEN <<0, 0>>
                         ELSE SetTotalMemory(fetch.stats.TotalMemory)
    /\ buffer = <<>>
    /\ adjustMemoryRet = NoAdjustMemory
    /\ requested = NothingRequested
    \* cpuController.Start()
    /\ ctx = "live"
    /\ cancel = TRUE
    /\ mu = 0
    /\ wg = NumCPU
    /\ workers = [i \in 1 .. NumCPU |-> [pc |-> "loop", counter |-> 0]]
    /\ callers = [c \in Callers |-> Idle]
    /\ stopReturned = FALSE
    /\ memPass = NoPass
    /\ cpuPass = NoPass
    /\ lastTick = "none"
    /\ ticks = 0

Next ==
    \/ MonitorTick
    \/ PeakUsageTick
    \/ GCTick

Spec == Init /\ [][Next]_vars

(***************************************************************************)
(* Properties                                                              *)
(***************************************************************************)


(***************************************************************************)
(* SpecPoolFair: a running pool's Stop() with a second call contending for *)
(* cc.mu, under the scheduling the Go runtime gives: a runnable goroutine  *)
(* (a worker, the caller holding cc.mu) eventually runs, a sleep of 1 ms   *)
(* ends, wg.Wait() returns once the counter is 0, and sync.Mutex hands the *)
(* lock to a waiter that keeps waiting (starvation mode), which is strong  *)
(* fairness of the Lock steps. Whether and when the two callers call Start *)
(* or Stop is up to them and has no fairness.                              *)
(***************************************************************************)
FairCallers == {1, 2}

NextPoolFair ==
    \/ \E c \in FairCallers : CallStart(c)
    \/ \E c \in FairCallers : StartLock(c)
    \/ \E c \in FairCallers : StartSpawn(c)
    \/ \E c \in FairCallers : StartUnlock(c)
    \/ \E c \in FairCallers : CallStop(c)
    \/ \E c \in FairCallers : StopLock(c)
    \/ \E c \in FairCallers : StopWait(c)
    \/ \E c \in FairCallers : StopUnlock(c)
    \/ \E i \in 1 .. Len(workers) : WorkerLoop(i)
    \/ \E i \in 1 .. Len(workers) : WorkerSpin(i)
    \/ \E i \in 1 .. Len(workers) : WorkerWake(i)
    \/ \E b \in BOOLEAN : AdjustCountRunning(b)

\* some worker that can run does
WorkerStep ==
    \E i \in 1 .. NumCPU : WorkerLoop(i) \/ WorkerSpin(i) \/ WorkerWake(i)

\* the caller holding cc.mu takes its next step
HolderStep ==
    \E c \in FairCallers :
        StartSpawn(c) \/ StartUnlock(c) \/ StopWait(c) \/ StopUnlock(c)

\* caller c returns from cc.mu.Lock()
LockStep(c) == StartLock(c) \/ StopLock(c)

FairPool ==
    /\ WF_vars(WorkerStep)
    /\ WF_vars(HolderStep)
    /\ \A c \in FairCallers : SF_vars(LockStep(c))

SpecPoolFair == InitSpecPool /\ [][NextPoolFair]_vars /\ FairPool

\* C1 (SpecCPU): whatever sequence of increase and decrease steps is applied
\* from the initial intensity 10000, the shared intensity and every value
\* AdjustCountRandom returns stay >= 1, so counter % count is defined.
C1_IntensityAtLeastOne ==
    /\ count >= 1
    /\ adjustCountRet.newCount >= 1

\* a decrease step was applied at the floor and the intensity stayed 1
C1_Witness ==
    /\ adjustCountRet.ok
    /\ ~adjustCountRet.shouldIncrease
    /\ adjustCountRet.currentCount = 1
    /\ count = 1

\* C2 (SpecMem): the size GetCurrentMemory reports is exactly the bytes held
\* by the balloon's blocks, every block is one whole 1 MiB block, and the
\* size is a non-negative multiple of the block size; AdjustMemoryRandom
\* returns that same size.
C2_BalloonWholeBlocks ==
    /\ \A i \in 1 .. Len(buffer) : buffer[i] = blockSize
    /\ SumSeq(buffer) = GetCurrentMemory
    /\ GetCurrentMemory >= 0
    /\ GetCurrentMemory % blockSize = 0
    /\ adjustMemoryRet.ok => adjustMemoryRet.actualBytes = SumSeq(buffer)

\* a decrease step has shrunk a balloon and blocks are left
C2_Witness ==
    /\ adjustMemoryRet.ok
    /\ ~adjustMemoryRet.shouldIncrease
    /\ Len(buffer) > 0
    /\ Len(buffer) < adjustMemoryRet.before

\* C3 as stated (SpecMem): the balloon never exceeds the sum of the step
\* sizes (each totalMemory / 1000) of the increase steps performed so far.
C3_NeverExceedsRequested == GetCurrentMemory <= requested.bytes

\* C3 amended (SpecMem): the balloon never exceeds the sum of the step sizes
\* of the increase steps once each step size is rounded up to whole 1 MiB
\* blocks, which is less than one block per increase step above the sum of
\* the step sizes.
C3_NeverExceedsRoundedRequest ==
    /\ GetCurrentMemory <= requested.rounded
    /\ requested.rounded - requested.bytes <= requested.steps * (blockSize - 1)

\* after two increase steps the balloon is above the bytes requested
C3_Witness ==
    /\ requested.steps >= 2
    /\ GetCurrentMemory > requested.bytes
    /\ GetCurrentMemory = requested.rounded

\* C4 (Spec): a pass that measured more than 70% is a forced pass: it issued
\* exactly one step, a decrease, to its own engine and consumed no random
\* draw, for every target and every value of the draws.
C4_HardCeilingForcesDecrease ==
    /\ (memPass.category # "none" /\ memPass.percent > 10 * hardPeakLimit) =>
          /\ memPass.category = "forced"
          /\ memPass.steps = <<FALSE>>
          /\ memPass.draws = 0
          /\ adjustMemoryRet.ok /\ ~adjustMemoryRet.shouldIncrease
          /\ Len(buffer) <= adjustMemoryRet.before
    /\ (cpuPass.category # "none" /\ cpuPass.percent > 10 * hardPeakLimit) =>
          /\ cpuPass.category = "forced"
          /\ cpuPass.steps = <<FALSE>>
          /\ cpuPass.draws = 0
          /\ adjustCountRet.ok /\ ~adjustCountRet.shouldIncrease
          /\ count = adjustCountRet.newCount
          /\ count < adjustCountRet.currentCount

\* both passes of a tick were forced and both engines went down
C4_Witness ==
    /\ memPass.category = "forced"
    /\ cpuPass.category = "forced"
    /\ Len(buffer) < adjustMemoryRet.before
    /\ count < adjustCountRet.currentCount

\* C5 (SpecTarget): the target is min(ceiling, 70) in the night window (UTC
\* hours 16..19) and min(0.8 * ceiling, 70) outside it, hence a function of
\* the ceiling and the night flag alone and never above 70; ceiling 40 at
\* night gives 40, ceiling 90 outside the window gives 70.
C5_TargetFunction ==
    expectedUsage # -1 =>
        /\ expectedUsage = IF hour \in 16 .. 19
                           THEN Min(10 * ceilingArg, 700)
                           ELSE Min(8 * ceilingArg, 700)
        /\ expectedUsage <= 700
        /\ (ceilingArg = 40 /\ hour \in 16 .. 19) => expectedUsage = 400
        /\ (ceilingArg = 90 /\ hour \notin 16 .. 19) => expectedUsage = 700

\* ceiling 90 outside the night window: raw 72 clamped to 70
C5_Witness ==
    /\ ceilingArg = 90
    /\ hour = 3
    /\ expectedUsage = 700

\* C6 (SpecPool): the live workers never exceed one pool of NumCPU; a
\* Start() that finds the pool running goes straight to its return without
\* spawning; a Start() that created a pool returns with exactly NumCPU
\* workers alive under a live context.
C6_PoolInv ==
    /\ Len(workers) <= NumCPU
    /\ wg = Len(workers)
    /\ \A c \in Callers :
          (callers[c].pc = "Start_unlock" /\ callers[c].acted) =>
              /\ Len(workers) = NumCPU
              /\ ctx = "live"
              /\ \A i \in 1 .. Len(workers) : workers[i].pc \in {"loop", "sleep"}

C6_NoSpawnWhenRunning ==
    \A c \in Callers :
        (callers[c].pc = "Start_lock" /\ ctx # "nil" /\ callers'[c].pc # "Start_lock") =>
            /\ callers'[c].pc = "Start_unlock"
            /\ ~callers'[c].acted
            /\ workers' = workers
            /\ wg' = wg

C6_StartIdempotent == []C6_PoolInv /\ [][C6_NoSpawnWhenRunning]_vars

\* after an earlier Stop() returned, a pool was started again and a further
\* Start() found it running
C6_Witness ==
    /\ stopReturned
    /\ Len(workers) = NumCPU
    /\ \E c \in Callers : callers[c].pc = "Start_unlock" /\ ~callers[c].acted

\* C7 (SpecPool): when a Stop() that found a pool is about to return, and
\* when it has returned, no worker is alive, the wait group is empty and the
\* engine is Stopped; a Stop() that finds the engine stopped changes nothing;
\* no worker ever reads a nil context.
C7_StopInv ==
    /\ \A c \in Callers :
          (callers[c].pc = "Stop_unlock" /\ callers[c].acted) =>
              /\ workers = <<>>
              /\ wg = 0
              /\ ctx = "nil"
              /\ ~cancel
    /\ \A i \in 1 .. Len(workers) : workers[i].pc # "panic"

C7_StopSteps ==
    \A c \in Callers :
        /\ (callers[c].pc = "Stop_unlock" /\ callers[c].acted
                /\ callers'[c].pc = "idle") =>
              (workers' = <<>> /\ ctx' = "nil" /\ ~cancel')
        /\ (callers[c].pc = "Stop_lock" /\ ~cancel /\ callers'[c].pc # "Stop_lock") =>
              /\ callers'[c].pc = "Stop_unlock"
              /\ UNCHANGED <<ctx, cancel, wg, workers, count>>

C7_NoWorkerOutlivesStop == []C7_StopInv /\ [][C7_StopSteps]_vars

\* a Stop() cancelled a running pool and is about to return
C7_Witness ==
    \E c \in Callers :
        /\ callers[c].pc = "Stop_unlock"
        /\ callers[c].acted
        /\ workers = <<>>

\* C8 as stated (SpecCPU): an increase step from 10000 returns and stores
\* 10010, and a decrease step from 1 returns and stores 1.
C8_TruncatedProduct ==
    adjustCountRet.ok =>
        /\ (adjustCountRet.currentCount = 10000 /\ adjustCountRet.shouldIncrease) =>
              (adjustCountRet.newCount = 10010 /\ count = 10010)
        /\ (adjustCountRet.currentCount = 1 /\ ~adjustCountRet.shouldIncrease) =>
              (adjustCountRet.newCount = 1 /\ count = 1)

\* C9 as stated (SpecMem): with 10 GiB of total memory, an increase step on
\* an empty balloon requests 10 MiB, appends 10 blocks and leaves 10,485,760
\* bytes.
C9_TenBlocks ==
    (adjustMemoryRet.ok /\ adjustMemoryRet.shouldIncrease
        /\ adjustMemoryRet.before = 0 /\ totalMemory = <<10240, 0>>) =>
            /\ adjustMemoryRet.adjustBytes = 10 * blockSize
            /\ Len(buffer) = 10
            /\ GetCurrentMemory = 10485760

\* C9 amended (SpecMem): with 10 GiB of total memory, an increase step on an
\* empty balloon requests 10,737,418 bytes (10 GiB / 1000), appends 11 blocks
\* of 1 MiB and leaves and returns 11,534,336 bytes.
C9_ElevenBlocks ==
    (adjustMemoryRet.ok /\ adjustMemoryRet.shouldIncrease
        /\ adjustMemoryRet.before = 0 /\ totalMemory = <<10240, 0>>) =>
            /\ adjustMemoryRet.adjustBytes = 10737418
            /\ Len(buffer) = 11
            /\ \A i \in 1 .. Len(buffer) : buffer[i] = blockSize
            /\ GetCurrentMemory = 11534336
            /\ adjustMemoryRet.actualBytes = 11534336

\* the increase step on the empty balloon with 10 GiB has run
C9_Witness ==
    /\ adjustMemoryRet.ok
    /\ adjustMemoryRet.shouldIncrease
    /\ adjustMemoryRet.before = 0
    /\ totalMemory = <<10240, 0>>
    /\ Len(buffer) = 11

\* C10 as stated (SpecDrift): the drifting ceiling never exceeds the hard
\* safety ceiling 70, at startup and after any number of drift updates.
C10_CeilingAtMostHardLimit == peakUsage <= hardPeakLimit

\* C10 amended (SpecDrift): the drifting ceiling never exceeds the configured
\* originCeiling, which is at most 100 (so it exceeds 70 for some origins
\* above 70); the hard safety ceiling 70 bounds the target computed from it.
C10_CeilingAtMostOrigin ==
    /\ peakUsage <= peakUsageOrigin
    /\ peakUsageOrigin <= 100
    /\ expectedUsage # -1 => expectedUsage <= 10 * hardPeakLimit

\* after a drift update the ceiling is above 70 and its target is 70
C10_Witness ==
    /\ peakUsage > hardPeakLimit
    /\ peakUsage < peakUsageOrigin
    /\ ceilingArg = peakUsage
    /\ expectedUsage = 10 * hardPeakLimit

\* C11 as stated (SpecDrift): after every drift update the ceiling is in
\* [0.2 x originCeiling, originCeiling], that is 5 x currentCeiling >=
\* originCeiling and currentCeiling <= originCeiling, it is at least 5, and
\* the drift update never changes originCeiling.
C11_CeilingInRealRange ==
    /\ [](/\ 5 * peakUsage >= peakUsageOrigin
          /\ peakUsage <= peakUsageOrigin
          /\ peakUsage >= minPeakUsage)
    /\ [][peakUsageOrigin' = peakUsageOrigin]_vars

\* C11 amended (SpecDrift): after every drift update the ceiling is an
\* integer in [floor(0.2 x originCeiling), originCeiling], so it can be
\* below 0.2 x originCeiling by less than one; it is at least 5, and the
\* drift update never changes originCeiling.
C11_CeilingInTruncatedRange ==
    /\ [](/\ peakUsage >= peakUsageOrigin \div 5
          /\ 5 * (peakUsage + 1) > peakUsageOrigin
          /\ peakUsage <= peakUsageOrigin
          /\ peakUsage >= minPeakUsage)
    /\ [][peakUsageOrigin' = peakUsageOrigin]_vars

\* a drift update left the ceiling below a fifth of originCeiling
C11_Witness ==
    /\ peakUsage < peakUsageOrigin
    /\ 5 * peakUsage < peakUsageOrigin
    /\ peakUsage >= minPeakUsage

\* C12 (Spec): on a monitor tick whose fetch fails, both controller passes
\* run on the remembered snapshot and the snapshot stays as it was; the
\* snapshot changes only on a tick whose fetch succeeded; and after a failed
\* fetch the loop still handles every kind of tick.
C12_FailedFetchReusesSnapshot ==
    /\ [][/\ (ticks' # ticks /\ fetchErr') =>
                /\ lastStats' = lastStats
                /\ memPass'.percent = lastStats.MemoryPercent
                /\ cpuPass'.percent = lastStats.CPUPercent
          /\ lastStats' # lastStats => (ticks' # ticks /\ ~fetchErr')]_vars
    /\ [](fetchErr =>
            /\ ENABLED GCTick
            /\ ENABLED PeakUsageTick
            /\ ticks < MaxTicks => ENABLED MonitorTick)

\* a tick succeeded with 70.1% on both resources, and the next tick's fetch
\* failed and ran both passes on that snapshot
C12_Witness ==
    /\ fetchErr
    /\ ticks >= 2
    /\ lastTick = "monitor"
    /\ lastStats.CPUPercent = 701
    /\ lastStats.MemoryPercent = 701
    /\ memPass.percent = 701
    /\ cpuPass.percent = 701

\* C13 as stated (SpecConfig): the ceiling main reads is in [5,100]; a
\* missing or malformed input and an input above 100 give 40, an input below
\* 5 gives 5, and an input in [5,100] is used unchanged.
C13_BelowFloorRaised ==
    peakUsageOrigin # 0 =>
        LET value == EnvValue(env)
        IN  /\ peakUsageOrigin \in 5 .. 100
            /\ peakUsage = peakUsageOrigin
            /\ value.kind \in {"unset", "invalid"} => peakUsageOrigin = 40
            /\ (value.kind = "int" /\ value.n > 100) => peakUsageOrigin = 40
            /\ (value.kind = "int" /\ value.n < 5) => peakUsageOrigin = 5
            /\ (value.kind = "int" /\ value.n \in 5 .. 100) => peakUsageOrigin = value.n

\* C13 amended (SpecConfig): the ceiling main reads is in [5,100]; a missing
\* or malformed input, an input below 1 and an input above 100 give 40, an
\* input in [1,4] gives 5, and an input in [5,100] is used unchanged.
C13_OneToFourRaised ==
    peakUsageOrigin # 0 =>
        LET value == EnvValue(env)
        IN  /\ peakUsageOrigin \in 5 .. 100
            /\ peakUsage = peakUsageOrigin
            /\ value.kind \in {"unset", "invalid"} => peakUsageOrigin = 40
            /\ (value.kind = "int" /\ value.n > 100) => peakUsageOrigin = 40
            /\ (value.kind = "int" /\ value.n < 1) => peakUsageOrigin = 40
            /\ (value.kind = "int" /\ value.n \in 1 .. 4) => peakUsageOrigin = 5
            /\ (value.kind = "int" /\ value.n \in 5 .. 100) => peakUsageOrigin = value.n

\* main has read P = 0, which is below the floor, and holds the default 40
C13_Witness ==
    /\ env.P = EnvInt(0)
    /\ peakUsageOrigin = defaultPeakUsage
    /\ peakUsage = defaultPeakUsage

\* C14 (SpecDirection): in every pass that adjusts, the increase-probability
\* is the step function of diff = current - target as the pass computes it
\* (a float64 difference, here in thirtieths of a point, within one
\* thirtieth of the difference of the tenths and equal to it when that is
\* not a whole number of points): below the target
\* >50 -> 0.90, >20 -> 0.80, >10 -> 0.70, >5 -> 0.65, >=2 -> 0.60, else 0.55;
\* at or above it >50 -> 0.10, >20 -> 0.20, >10 -> 0.30, >5 -> 0.35,
\* >=2 -> 0.40, else 0.45; diff = -60 gives 0.90; and the step is an
\* increase exactly when the direction draw is below that probability.
C14_DirectionTable ==
    memPass.category = "adjust" =>
        LET tenths == memPass.percent - expectedUsage
            diff == memPass.diff
            magnitude == IF diff < 0 THEN 0 - diff ELSE diff
            below == IF magnitude > 1500 THEN 90
                     ELSE IF magnitude > 600 THEN 80
                     ELSE IF magnitude > 300 THEN 70
                     ELSE IF magnitude > 150 THEN 65
                     ELSE IF magnitude >= 60 THEN 60
                     ELSE 55
            above == IF magnitude > 1500 THEN 10
                     ELSE IF magnitude > 600 THEN 20
                     ELSE IF magnitude > 300 THEN 30
                     ELSE IF magnitude > 150 THEN 35
                     ELSE IF magnitude >= 60 THEN 40
                     ELSE 45
            p == IF diff < 0 THEN below ELSE above
        IN  /\ diff \in {3 * tenths - 1, 3 * tenths, 3 * tenths + 1}
            /\ tenths % 10 # 0 => diff = 3 * tenths
            /\ memPass.increaseProb = p
            /\ diff = -1800 => memPass.increaseProb = 90
            /\ diff = 0 => memPass.increaseProb = 45
            /\ memPass.steps = <<memPass.draw < p>>
            /\ adjustMemoryRet.ok
            /\ adjustMemoryRet.shouldIncrease = (memPass.draw < p)

\* a pass 60 points under its target drew 0.89, just below 0.90, and
\* issued an increase
C14_Witness ==
    /\ memPass.category = "adjust"
    /\ memPass.percent - expectedUsage = -600
    /\ memPass.diff = -1800
    /\ memPass.increaseProb = 90
    /\ memPass.draw = 89
    /\ memPass.steps = <<TRUE>>
    /\ adjustMemoryRet.shouldIncrease

\* C15 (Spec): on every monitor tick each of the two passes is a forced
\* decrease, a skip or an adjust; a forced pass applies exactly one decrease
\* step to its own engine, an adjust applies exactly one step in the drawn
\* direction, and a skip leaves its own engine as it was whatever the other
\* pass did; no pass issues more than one step.
C15_OneOutcomePerPass ==
    [][ticks' # ticks =>
        /\ memPass'.category \in {"forced", "skip", "adjust"}
        /\ cpuPass'.category \in {"forced", "skip", "adjust"}
        /\ Len(memPass'.steps) <= 1
        /\ Len(cpuPass'.steps) <= 1
        /\ memPass'.category = "forced" => memPass'.steps = <<FALSE>>
        /\ cpuPass'.category = "forced" => cpuPass'.steps = <<FALSE>>
        /\ memPass'.category = "skip" =>
                /\ memPass'.steps = <<>>
                /\ memVars' = memVars
        /\ cpuPass'.category = "skip" =>
                /\ cpuPass'.steps = <<>>
                /\ cpuVars' = cpuVars
        /\ memPass'.category \in {"forced", "adjust"} =>
                /\ Len(memPass'.steps) = 1
                /\ adjustMemoryRet'.ok
                /\ adjustMemoryRet'.shouldIncrease = memPass'.steps[1]
                /\ adjustMemoryRet'.before = Len(buffer)
                /\ buffer' = adjustTo(buffer,
                                TargetProgramBytes(buffer, totalMemory,
                                                   memPass'.steps[1]))
        /\ cpuPass'.category \in {"forced", "adjust"} =>
                /\ Len(cpuPass'.steps) = 1
                /\ adjustCountRet'.ok
                /\ adjustCountRet'.shouldIncrease = cpuPass'.steps[1]
                /\ adjustCountRet'.currentCount = count
                /\ count' = NewCount(count, cpuPass'.steps[1])]_vars

\* after an earlier adjust grew the balloon, a tick skipped the memory pass
\* and forced a CPU decrease: the balloon is still there, the intensity fell
C15_Witness ==
    /\ ticks >= 2
    /\ memPass.category = "skip"
    /\ cpuPass.category = "forced"
    /\ Len(buffer) > 0
    /\ count < initCount

\* C16 as stated (SpecRace): when two concurrent AdjustCountRandom calls
\* have both returned, the intensity is what the two steps give when applied
\* one after the other in some order, starting from the intensity the first
\* of them read.
C16_ConcurrentStepsSerialize ==
    (\A a \in Adjusters : adjusters[a].pc = "done") =>
        \E i \in Adjusters, j \in Adjusters :
            /\ i # j
            /\ count = NewCount(NewCount(adjusters[i].currentCount,
                                         adjusters[i].shouldIncrease),
                                adjusters[j].shouldIncrease)

\* C17 as stated (SpecCPU): at every intensity that steps reach, an
\* increase step returns and stores an intensity strictly greater than the
\* one it read.
C17_IncreaseStrictlyRaises ==
    (adjustCountRet.ok /\ adjustCountRet.shouldIncrease) =>
        /\ adjustCountRet.newCount > adjustCountRet.currentCount
        /\ count > adjustCountRet.currentCount

\* C18 (SpecPoolFair): under fair scheduling every Stop() that cancelled a
\* running pool and waits for its workers eventually returns, and every
\* Start() or Stop() call waiting for the engine mutex eventually gets it.
C18_StopTerminates ==
    \A c \in FairCallers :
        /\ (callers[c].pc = "Stop_wait") ~> (callers[c].pc = "idle")
        /\ (callers[c].pc \in {"Start_lock", "Stop_lock"})
              ~> (callers[c].pc \notin {"Start_lock", "Stop_lock"})

\* a Stop() that cancelled the pool has seen every worker exit and is about
\* to return, while another call waits for the mutex it holds
C18_Witness ==
    \E c \in FairCallers, d \in FairCallers :
        /\ callers[c].pc = "Stop_unlock"
        /\ callers[c].acted
        /\ mu = c
        /\ callers[d].pc \in {"Start_lock", "Stop_lock"}
        /\ workers = <<>>
        /\ wg = 0

\* C19 (SpecMem): for every total-memory basis and balloon size, a decrease
\* step taken right after an increase step leaves the balloon with exactly
\* the blocks it had before the increase: the decrease drops from the tail
\* as many 1 MiB blocks as the increase appended.
C19_IncreaseThenDecrease ==
    [][(/\ adjustMemoryRet.ok
        /\ adjustMemoryRet.shouldIncrease
        /\ adjustMemoryRet'.ok
        /\ ~adjustMemoryRet'.shouldIncrease) =>
            /\ Len(buffer') = adjustMemoryRet.before
            /\ buffer' = SubSeq(buffer, 1, adjustMemoryRet.before)
            /\ adjustMemoryRet'.before - Len(buffer')
                  = Len(buffer) - adjustMemoryRet.before
            /\ adjustMemoryRet'.actualBytes = adjustMemoryRet.before * blockSize]_vars

\* with a 10 GiB basis two increases grew the balloon to 22 blocks and the
\* decrease right after the second one brought it back to 11
C19_Witness ==
    /\ adjustMemoryRet.ok
    /\ ~adjustMemoryRet.shouldIncrease
    /\ requested.steps = 2
    /\ adjustMemoryRet.before = 22
    /\ Len(buffer) = 11

\* C20 (Spec): the loop never changes the memory step basis; when the
\* startup fetch failed the basis is 0, and while the basis is 0 (the only
\* basis below 1000 bytes that main can hold) the balloon stays empty on
\* every tick, also when a later fetch succeeds and the pass increases; a
\* memory step with a step size of 0 leaves the balloon unchanged.
C20_BasisOnlyAtStartup ==
    /\ [][totalMemory' = totalMemory]_vars
    /\ []((ticks = 0 /\ fetchErr) => totalMemory = <<0, 0>>)
    /\ [](totalMemory = <<0, 0>> =>
            (buffer = <<>> /\ getCurrentProgramMemory(buffer) = 0))
    /\ [][Div1000(totalMemory) = 0 =>
            (buffer' = buffer /\ adjustMemoryRet'.actualBytes = 0)]_vars

\* the startup fetch failed, a later fetch succeeded and reported 10 GiB,
\* the memory pass of that tick chose increase, and the balloon is empty
C20_Witness ==
    /\ totalMemory = <<0, 0>>
    /\ ticks >= 1
    /\ ~fetchErr
    /\ lastStats.TotalMemory = HostTotal
    /\ memPass.category = "adjust"
    /\ memPass.steps = <<TRUE>>
    /\ adjustMemoryRet.ok
    /\ adjustMemoryRet.shouldIncrease
    /\ adjustMemoryRet.adjustBytes = 0
    /\ buffer = <<>>

====
